---- MODULE Spec2Model ----
(***************************************************************************)
(* Model of elerp's configuration derive (libelp-proc-internal::configure). *)
(*                                                                         *)
(* The derive macro `handler` turns a struct declaration into three        *)
(* generated methods: new(), to_toml(&self) and from_toml(&str).  The      *)
(* model has two layers, as the code has:                                  *)
(*   - generation: handler, process_default_value, generate_to_toml_impl,  *)
(*     generate_from_toml_impl, field_value_to_toml_string produce tokens; *)
(*   - execution: the generated tokens are run on instances and on TOML    *)
(*     text (a sequence of lines, each a sequence of lexical tokens).      *)
(*                                                                         *)
(* Records are used as tagged values.  Every record field name carries one *)
(* type of payload throughout the module (s: string, i: decimal integer,   *)
(* f: float text, b: boolean, ...).                                        *)
(***************************************************************************)
EXTENDS Integers, Sequences, FiniteSets, TLC

VARIABLES
    registry,   \* the structs derived so far in the crate: name -> derived item
    build,      \* "ok" while every derived struct compiled, else the error that
                \* stopped the build
    schema,     \* the struct whose generated methods are exercised (a DeriveInput)
    inst,       \* the caller's instance of `schema`
    out,        \* the last to_toml call: the instance it was called on, its text
    doc,        \* the text handed to the last from_toml call, and where it came from
    res,        \* the result of the last from_toml call
    coerce,     \* a direct call of process_default_value: arguments and result
    last        \* the name of the last operation

vars == <<registry, build, schema, inst, out, doc, res, coerce, last>>

(***************************************************************************)
(* Decimal integers.  Rust's integer types go up to 128 bits, so an        *)
(* integer is kept as a sign and a sequence of decimal digits (most        *)
(* significant first, no leading zero), which is also the text             *)
(* LitInt::base10_digits hands to str::parse.                              *)
(***************************************************************************)
Dec(neg, mag) == [neg |-> neg, mag |-> mag]

Nat0 == Dec(FALSE, <<0>>)

MagLess(a, b) ==
    \/ Len(a) < Len(b)
    \/ /\ Len(a) = Len(b)
       /\ \E n \in 1..Len(a) :
            /\ a[n] < b[n]
            /\ \A m \in 1..(n - 1) : a[m] = b[m]

MagLeq(a, b) == a = b \/ MagLess(a, b)

IsZero(x) == x.mag = <<0>>

\* the largest value of each integer type, and the magnitude of its smallest
IntegerTypes ==
    {"i8", "i16", "i32", "i64", "i128", "isize",
     "u8", "u16", "u32", "u64", "u128", "usize"}

SignedTypes == {"i8", "i16", "i32", "i64", "i128", "isize"}

MaxMag(ty) ==
    CASE ty = "i8"    -> <<1,2,7>>
      [] ty = "i16"   -> <<3,2,7,6,7>>
      [] ty = "i32"   -> <<2,1,4,7,4,8,3,6,4,7>>
      [] ty \in {"i64", "isize"} -> <<9,2,2,3,3,7,2,0,3,6,8,5,4,7,7,5,8,0,7>>
      [] ty = "i128"  -> <<1,7,0,1,4,1,1,8,3,4,6,0,4,6,9,2,3,1,7,3,
                           1,6,8,7,3,0,3,7,1,5,8,8,4,1,0,5,7,2,7>>
      [] ty = "u8"    -> <<2,5,5>>
      [] ty = "u16"   -> <<6,5,5,3,5>>
      [] ty = "u32"   -> <<4,2,9,4,9,6,7,2,9,5>>
      [] ty \in {"u64", "usize"} -> <<1,8,4,4,6,7,4,4,0,7,3,7,0,9,5,5,1,6,1,5>>
      [] ty = "u128"  -> <<3,4,0,2,8,2,3,6,6,9,2,0,9,3,8,4,6,3,4,6,
                           3,3,7,4,6,0,7,4,3,1,7,6,8,2,1,1,4,5,5>>

MinMag(ty) ==
    CASE ty = "i8"    -> <<1,2,8>>
      [] ty = "i16"   -> <<3,2,7,6,8>>
      [] ty = "i32"   -> <<2,1,4,7,4,8,3,6,4,8>>
      [] ty \in {"i64", "isize"} -> <<9,2,2,3,3,7,2,0,3,6,8,5,4,7,7,5,8,0,8>>
      [] ty = "i128"  -> <<1,7,0,1,4,1,1,8,3,4,6,0,4,6,9,2,3,1,7,3,
                           1,6,8,7,3,0,3,7,1,5,8,8,4,1,0,5,7,2,8>>
      [] OTHER        -> <<0>>

\* x lies in the range of integer type ty
InRange(x, ty) ==
    IF x.neg /\ ~IsZero(x)
    THEN MagLeq(x.mag, MinMag(ty))
    ELSE MagLeq(x.mag, MaxMag(ty))

(***************************************************************************)
(* Results.                                                                *)
(***************************************************************************)
Ok(ts) == [ok |-> TRUE, ts |-> ts]

Err(e) == [ok |-> FALSE, err |-> e]

(***************************************************************************)
(* syn's view of a field: its type and its `default = ...` expression.     *)
(***************************************************************************)
\* Type::Path with the given last segment
TypePath(name) == [path |-> TRUE, last |-> name]

\* any other syn::Type (a reference such as &str, a tuple, ...)
TypeOther(name) == [path |-> FALSE, last |-> name]

LitStr(s)   == [e |-> "lit", lit |-> "str", s |-> s]
LitInt(i)   == [e |-> "lit", lit |-> "int", i |-> i]
LitFloat(f) == [e |-> "lit", lit |-> "float", f |-> f]
LitBool(b)  == [e |-> "lit", lit |-> "bool", b |-> b]
LitChar(c)  == [e |-> "lit", lit |-> "char", c |-> c]
LitByte(c)  == [e |-> "lit", lit |-> "byte", c |-> c]
ExprPath(ident) == [e |-> "path", ident |-> ident]
ExprOther(src)  == [e |-> "other", src |-> src]
NoDefault == [e |-> "none"]

(***************************************************************************)
(* The tokens process_default_value produces: a Rust expression.           *)
(***************************************************************************)
TokStrToString(s) == [tok |-> "str_to_string", s |-> s]  \* "..." .to_string()
TokStr(s)         == [tok |-> "str", s |-> s]            \* "..."
TokInt(ty, i)     == [tok |-> "int", ty |-> ty, i |-> i] \* suffixed integer
TokFloat(ty, f)   == [tok |-> "float", ty |-> ty, f |-> f]
TokBool(b)        == [tok |-> "bool", b |-> b]
TokIdent(ident)   == [tok |-> "ident", ident |-> ident]
TokExpr(src)      == [tok |-> "expr", src |-> src]
TokDefault        == [tok |-> "default"]                 \* Default::default()

\* ConfigError values
ErrKind(kind) == [kind |-> kind]
ErrType(kind, type_name) == [kind |-> kind, type_name |-> type_name]
ErrParseInt(i, type_name) ==
    [kind |-> "ParseError", type_name |-> type_name, i |-> i]
ErrParseFloat(f, type_name) ==
    [kind |-> "ParseError", type_name |-> type_name, f |-> f]

\* get_type_name taking any type by its spelling
get_type_name_any_type(ty) == Ok(ty.last)

\* process_default_value.rs: get_type_name
get_type_name(ty) ==
    IF ty.path
    THEN Ok(ty.last)
    ELSE Err(ErrKind("UnsupportedTypeFormat"))

handle_string_literal(s, type_name) ==
    CASE type_name = "String" -> Ok(TokStrToString(s))
      [] type_name = "str"    -> Ok(TokStr(s))
      [] OTHER -> Err(ErrType("StringLiteralWrongType", type_name))

\* parse_and_quote_int without the range check of str::parse
parse_and_quote_int_unchecked(i, ty) == Ok(TokInt(ty, i))

\* str::parse::<T>() of decimal text for an integer type, then quote!{ #parsed }
parse_and_quote_int(i, ty) ==
    IF InRange(i, ty)
    THEN Ok(TokInt(ty, i))
    ELSE Err(ErrParseInt(i, ty))

\* str::parse::<f32/f64>() of a float literal's digits
parse_and_quote_float(f, ty) == Ok(TokFloat(ty, f))

\* handle_int_literal taking the float types for integer types too
handle_int_literal_any_number(i, type_name) ==
    IF type_name \in IntegerTypes
    THEN parse_and_quote_int(i, type_name)
    ELSE IF type_name \in {"f32", "f64"}
    THEN Ok(TokInt(type_name, i))
    ELSE Err(ErrType("IntegerLiteralWrongType", type_name))

handle_int_literal(i, type_name) ==
    IF type_name \in IntegerTypes
    THEN parse_and_quote_int(i, type_name)
    ELSE Err(ErrType("IntegerLiteralWrongType", type_name))

handle_float_literal(f, type_name) ==
    IF type_name \in {"f32", "f64"}
    THEN parse_and_quote_float(f, type_name)
    ELSE Err(ErrType("FloatLiteralWrongType", type_name))

handle_bool_literal(b, type_name) ==
    IF type_name = "bool"
    THEN Ok(TokBool(b))
    ELSE Err(ErrType("BooleanLiteralWrongType", type_name))

\* process_default_value refusing an identifier for a type that is no string
process_default_value_checked_path(default_expr, field_ty) ==
    LET tn == get_type_name(field_ty) IN
    IF ~tn.ok THEN tn
    ELSE LET type_name == tn.ts IN
         CASE default_expr.e = "lit" ->
                CASE default_expr.lit = "str" ->
                       handle_string_literal(default_expr.s, type_name)
                  [] default_expr.lit = "int" ->
                       handle_int_literal(default_expr.i, type_name)
                  [] default_expr.lit = "float" ->
                       handle_float_literal(default_expr.f, type_name)
                  [] default_expr.lit = "bool" ->
                       handle_bool_literal(default_expr.b, type_name)
                  [] OTHER -> Err(ErrKind("UnsupportedLiteralType"))
           [] default_expr.e = "path" ->
                CASE type_name = "String" -> Ok(TokStrToString(default_expr.ident))
                  [] type_name = "str"    -> Ok(TokStr(default_expr.ident))
                  [] OTHER -> Err(ErrKind("CannotParsePathExpression"))
           [] OTHER -> Ok(TokExpr(default_expr.src))

\* process_default_value reading a character or byte literal as a string
process_default_value_char_as_string(default_expr, field_ty) ==
    LET tn == get_type_name(field_ty) IN
    IF ~tn.ok THEN tn
    ELSE LET type_name == tn.ts IN
         CASE default_expr.e = "lit" ->
                CASE default_expr.lit = "str" ->
                       handle_string_literal(default_expr.s, type_name)
                  [] default_expr.lit = "int" ->
                       handle_int_literal(default_expr.i, type_name)
                  [] default_expr.lit = "float" ->
                       handle_float_literal(default_expr.f, type_name)
                  [] default_expr.lit = "bool" ->
                       handle_bool_literal(default_expr.b, type_name)
                  [] OTHER -> handle_string_literal(default_expr.c, type_name)
           [] default_expr.e = "path" ->
                CASE type_name = "String" -> Ok(TokStrToString(default_expr.ident))
                  [] type_name = "str"    -> Ok(TokStr(default_expr.ident))
                  [] OTHER                -> Ok(TokIdent(default_expr.ident))
           [] OTHER -> Ok(TokExpr(default_expr.src))

\* process_default_value refusing an expression for a primitive type
process_default_value_checked_expr(default_expr, field_ty) ==
    LET tn == get_type_name(field_ty) IN
    IF ~tn.ok THEN tn
    ELSE LET type_name == tn.ts IN
         CASE default_expr.e = "lit" ->
                CASE default_expr.lit = "str" ->
                       handle_string_literal(default_expr.s, type_name)
                  [] default_expr.lit = "int" ->
                       handle_int_literal(default_expr.i, type_name)
                  [] default_expr.lit = "float" ->
                       handle_float_literal(default_expr.f, type_name)
                  [] default_expr.lit = "bool" ->
                       handle_bool_literal(default_expr.b, type_name)
                  [] OTHER -> Err(ErrKind("UnsupportedLiteralType"))
           [] default_expr.e = "path" ->
                CASE type_name = "String" -> Ok(TokStrToString(default_expr.ident))
                  [] type_name = "str"    -> Ok(TokStr(default_expr.ident))
                  [] OTHER                -> Ok(TokIdent(default_expr.ident))
           [] OTHER ->
                IF type_name \in IntegerTypes \cup {"String", "str", "f32", "f64", "bool"}
                THEN Err(ErrKind("CannotParsePathExpression"))
                ELSE Ok(TokExpr(default_expr.src))

process_default_value(default_expr, field_ty) ==
    LET tn == get_type_name(field_ty) IN
    IF ~tn.ok THEN tn
    ELSE LET type_name == tn.ts IN
         CASE default_expr.e = "lit" ->
                CASE default_expr.lit = "str" ->
                       handle_string_literal(default_expr.s, type_name)
                  [] default_expr.lit = "int" ->
                       handle_int_literal(default_expr.i, type_name)
                  [] default_expr.lit = "float" ->
                       handle_float_literal(default_expr.f, type_name)
                  [] default_expr.lit = "bool" ->
                       handle_bool_literal(default_expr.b, type_name)
                  [] OTHER -> Err(ErrKind("UnsupportedLiteralType"))
           [] default_expr.e = "path" ->
                CASE type_name = "String" -> Ok(TokStrToString(default_expr.ident))
                  [] type_name = "str"    -> Ok(TokStr(default_expr.ident))
                  [] OTHER                -> Ok(TokIdent(default_expr.ident))
           [] OTHER -> Ok(TokExpr(default_expr.src))

(***************************************************************************)
(* The derive input: a struct (or enum/union) and its fields.              *)
(***************************************************************************)
\* a named field `ident: ty` with #[config(default = ..., note = ...)];
\* note is a sequence of at most one string (Option<String>)
Field(ident, ty, default, note) ==
    [named |-> TRUE, ident |-> ident, ty |-> ty, default |-> default, note |-> note]

\* a field of a tuple struct: no ident
UnnamedField(ty, default, note) ==
    [named |-> FALSE, ident |-> "", ty |-> ty, default |-> default, note |-> note]

DeriveInput(name, data, fields) ==
    [name |-> name, data |-> data, fields |-> fields]

PrimitiveNames ==
    {"String", "str", "i8", "i16", "i32", "i64", "i128", "isize",
     "u8", "u16", "u32", "u64", "u128", "usize", "f32", "f64", "bool"}

\* mod.rs: get_type_last_ident, an Option<String> as a sequence of length <= 1
get_type_last_ident(ty) == IF ty.path THEN <<ty.last>> ELSE <<>>

\* is_primitive taking every type path for a primitive
is_primitive_any_path(field_ty) == Len(get_type_last_ident(field_ty)) = 1

\* mod.rs handler: the test that decides a field's depth expression
is_primitive(field_ty) ==
    LET li == get_type_last_ident(field_ty) IN
    Len(li) = 1 /\ li[1] \in PrimitiveNames

(***************************************************************************)
(* toml_utils.rs: the text of a default in a field's comment line.  A      *)
(* piece of text is kept by its lexical content: a quoted string, decimal  *)
(* digits, float digits, true/false, or a bare word.                       *)
(***************************************************************************)
Quoted(s)   == [r |-> "quoted", s |-> s]
Digits(i)   == [r |-> "digits", i |-> i]
FDigits(f)  == [r |-> "fdigits", f |-> f]
BoolText(b) == [r |-> "bool", b |-> b]
Bare(s)     == [r |-> "bare", s |-> s]

ErrSyn(msg) == [kind |-> "syn", msg |-> msg]

\* toml_utils.rs: get_type_name (the same test, reported as a syn::Error)
toml_get_type_name(ty) ==
    IF ty.path
    THEN Ok(ty.last)
    ELSE Err(ErrSyn("unsupported type format"))

\* field_value_to_toml_string quoting an identifier whatever the type is
field_value_to_toml_string_quoting(default_expr, field_ty) ==
    LET tn == toml_get_type_name(field_ty) IN
    IF ~tn.ok THEN tn
    ELSE LET type_name == tn.ts IN
         CASE default_expr.e = "lit" ->
                CASE default_expr.lit = "str"   -> Ok(Quoted(default_expr.s))
                  [] default_expr.lit = "int"   -> Ok(Digits(default_expr.i))
                  [] default_expr.lit = "float" -> Ok(FDigits(default_expr.f))
                  [] default_expr.lit = "bool"  -> Ok(BoolText(default_expr.b))
                  [] OTHER -> Err(ErrSyn("unsupported literal type"))
           [] default_expr.e = "path" -> Ok(Quoted(default_expr.ident))
           [] default_expr.e = "other" -> Ok(Bare("default_value"))
           [] OTHER ->
                CASE type_name \in {"String", "str"} -> Ok(Quoted(""))
                  [] type_name \in IntegerTypes      -> Ok(Digits(Nat0))
                  [] type_name \in {"f32", "f64"}    -> Ok(FDigits("0.0"))
                  [] type_name = "bool"              -> Ok(BoolText(FALSE))
                  [] OTHER                           -> Ok(Bare("null"))

field_value_to_toml_string(default_expr, field_ty) ==
    LET tn == toml_get_type_name(field_ty) IN
    IF ~tn.ok THEN tn
    ELSE LET type_name == tn.ts IN
         CASE default_expr.e = "lit" ->
                CASE default_expr.lit = "str"   -> Ok(Quoted(default_expr.s))
                  [] default_expr.lit = "int"   -> Ok(Digits(default_expr.i))
                  [] default_expr.lit = "float" -> Ok(FDigits(default_expr.f))
                  [] default_expr.lit = "bool"  -> Ok(BoolText(default_expr.b))
                  [] OTHER -> Err(ErrSyn("unsupported literal type"))
           [] default_expr.e = "path" ->
                IF type_name \in {"String", "str"}
                THEN Ok(Quoted(default_expr.ident))
                ELSE Ok(Bare(default_expr.ident))
           [] default_expr.e = "other" -> Ok(Bare("default_value"))
           [] OTHER ->   \* no default: by type
                CASE type_name \in {"String", "str"} -> Ok(Quoted(""))
                  [] type_name \in IntegerTypes      -> Ok(Digits(Nat0))
                  [] type_name \in {"f32", "f64"}    -> Ok(FDigits("0.0"))
                  [] type_name = "bool"              -> Ok(BoolText(FALSE))
                  [] OTHER                           -> Ok(Bare("null"))

(***************************************************************************)
(* toml_utils.rs: generate_from_toml_impl.  One assignment per field that  *)
(* has a name and a path type; its parse logic is chosen by the type name. *)
(***************************************************************************)
FromTomlBranches == {"String", "i32", "i64", "u16", "u32", "u64", "f64", "bool"}

from_toml_parse_logic(type_name) ==
    IF type_name \in FromTomlBranches THEN type_name ELSE "other"

from_toml_assignment(field) ==
    [name |-> field.ident,
     logic |-> from_toml_parse_logic(field.ty.last),
     type_name |-> field.ty.last]

RECURSIVE FilterMapFields(_)
FilterMapFields(fields) ==
    IF fields = <<>> THEN <<>>
    ELSE LET field == Head(fields)
             rest  == FilterMapFields(Tail(fields))
         IN IF field.named /\ toml_get_type_name(field.ty).ok
            THEN <<from_toml_assignment(field)>> \o rest
            ELSE rest

generate_from_toml_impl(fields) == FilterMapFields(fields)

(***************************************************************************)
(* toml_utils.rs: generate_to_toml_impl.  One block of three lines per     *)
(* field; the first field that fails ends the generation with its error.   *)
(***************************************************************************)
to_toml_branch(type_name) ==
    CASE type_name = "String"           -> "String"
      [] type_name \in IntegerTypes     -> "int"
      [] type_name \in {"f64", "f32"}   -> "float"
      [] type_name = "bool"             -> "bool"
      [] OTHER                          -> "other"

default_compare_tokens(field) ==
    IF field.default.e # "none"
    THEN process_default_value(field.default, field.ty)
    ELSE Ok(TokDefault)

\* the block of one field_config entry, or the error that `?` returns
to_toml_field_block(field) ==
    IF ~field.named THEN Err(ErrSyn("field must have a name"))
    ELSE LET tn == toml_get_type_name(field.ty) IN
    IF ~tn.ok THEN tn
    ELSE LET dv == field_value_to_toml_string(field.default, field.ty) IN
    IF ~dv.ok THEN dv
    ELSE LET cmp == default_compare_tokens(field) IN
    IF ~cmp.ok THEN cmp
    ELSE Ok([branch |-> to_toml_branch(tn.ts),
             name |-> field.ident,
             note_text |-> IF field.note = <<>> THEN "" ELSE field.note[1],
             type_name |-> tn.ts,
             default_value |-> dv.ts,
             cmp |-> cmp.ts])

RECURSIVE ToTomlBlocks(_)
ToTomlBlocks(field_configs) ==
    IF field_configs = <<>> THEN Ok(<<>>)
    ELSE LET b == to_toml_field_block(Head(field_configs)) IN
         IF ~b.ok THEN b
         ELSE LET rest == ToTomlBlocks(Tail(field_configs)) IN
              IF ~rest.ok THEN rest
              ELSE Ok(<<b.ts>> \o rest.ts)

generate_to_toml_impl(field_configs) == ToTomlBlocks(field_configs)

(***************************************************************************)
(* mod.rs: handler.  The outcome is a compile error, a panic of the macro  *)
(* (`expect("named fields only")`), or the expanded impl.                  *)
(***************************************************************************)
CompileError(e) == [outcome |-> "compile_error", err |-> e]

MacroPanic == [outcome |-> "panic"]

\* depth expression of a field: 0usize or 1usize + <T>::__ELP_CHILD_DEPTH
depth_expr(field) ==
    IF is_primitive(field.ty)
    THEN [d |-> "zero"]
    ELSE [d |-> "child", of |-> field.ty]

\* default_value dropping the declared default
default_value_dropped(field) == Ok(TokDefault)

\* default_value handing an absent default to the coercer as well
default_value_coerce_absent(field) ==
    IF field.default.e # "none"
    THEN process_default_value(field.default, field.ty)
    ELSE process_default_value(ExprOther("Default::default()"), field.ty)

\* the value new() assigns to a field
default_value(field) ==
    IF field.default.e # "none"
    THEN process_default_value(field.default, field.ty)
    ELSE Ok(TokDefault)

\* the first loop of handler stops at the first field that is unnamed
\* (panic) or whose default is rejected (compile error)
FieldFails(field) == ~field.named \/ ~default_value(field).ok

\* handler reporting the error of the last failing field, not the first
handler_last_error(ast) ==
    IF ast.data # "struct" THEN CompileError(ErrKind("OnlySupportsStructs"))
    ELSE LET fields == ast.fields
             bad == {n \in 1..Len(fields) : FieldFails(fields[n])}
         IN
         IF bad # {}
         THEN LET worst == CHOOSE n \in bad : \A m \in bad : n >= m IN
              IF ~fields[worst].named
              THEN MacroPanic
              ELSE CompileError(default_value(fields[worst]).err)
         ELSE LET to_toml_impl == generate_to_toml_impl(fields) IN
              IF ~to_toml_impl.ok THEN CompileError(to_toml_impl.err)
              ELSE [outcome |-> "expanded",
                    name |-> ast.name,
                    field_assignments |->
                        [n \in 1..Len(fields) |->
                            [name |-> fields[n].ident,
                             type_name |-> fields[n].ty.last,
                             value |-> default_value(fields[n]).ts]],
                    from_toml |-> generate_from_toml_impl(fields),
                    to_toml |-> to_toml_impl.ts,
                    depth_exprs |-> [n \in 1..Len(fields) |-> depth_expr(fields[n])]]

\* handler looking at the fields before it looks at the shape
handler_fields_first(ast) ==
    LET fields == ast.fields
        bad == {n \in 1..Len(fields) : FieldFails(fields[n])}
    IN
    IF bad # {}
    THEN LET first == CHOOSE n \in bad : \A m \in bad : n <= m IN
         IF ~fields[first].named
         THEN MacroPanic
         ELSE CompileError(default_value(fields[first]).err)
    ELSE IF ast.data # "struct" THEN CompileError(ErrKind("OnlySupportsStructs"))
    ELSE LET to_toml_impl == generate_to_toml_impl(fields) IN
         IF ~to_toml_impl.ok THEN CompileError(to_toml_impl.err)
         ELSE [outcome |-> "expanded",
               name |-> ast.name,
               field_assignments |->
                   [n \in 1..Len(fields) |->
                       [name |-> fields[n].ident,
                        type_name |-> fields[n].ty.last,
                        value |-> default_value(fields[n]).ts]],
               from_toml |-> generate_from_toml_impl(fields),
               to_toml |-> to_toml_impl.ts,
               depth_exprs |-> [n \in 1..Len(fields) |-> depth_expr(fields[n])]]

handler(ast) ==
    IF ast.data # "struct" THEN CompileError(ErrKind("OnlySupportsStructs"))
    ELSE LET fields == ast.fields
             bad == {n \in 1..Len(fields) : FieldFails(fields[n])}
         IN
         IF bad # {}
         THEN LET first == CHOOSE n \in bad : \A m \in bad : n <= m IN
              IF ~fields[first].named
              THEN MacroPanic
              ELSE CompileError(default_value(fields[first]).err)
         ELSE LET to_toml_impl == generate_to_toml_impl(fields) IN
              IF ~to_toml_impl.ok THEN CompileError(to_toml_impl.err)
              ELSE [outcome |-> "expanded",
                    name |-> ast.name,
                    field_assignments |->
                        [n \in 1..Len(fields) |->
                            [name |-> fields[n].ident,
                             type_name |-> fields[n].ty.last,
                             value |-> default_value(fields[n]).ts]],
                    from_toml |-> generate_from_toml_impl(fields),
                    to_toml |-> to_toml_impl.ts,
                    depth_exprs |-> [n \in 1..Len(fields) |-> depth_expr(fields[n])]]

(***************************************************************************)
(* Execution of the generated code.  Rust values:                          *)
(***************************************************************************)
VStr(s)   == [k |-> "str", s |-> s]
VInt(i)   == [k |-> "int", i |-> i]
VFloat(f) == [k |-> "float", f |-> f]
VBool(b)  == [k |-> "bool", b |-> b]
VStruct(name, fields) == [k |-> "struct", name |-> name, fields |-> fields]

\* items of the user's crate that a default may name (tests.rs: `default = TEN`)
ConstValue(ident) == VInt(Dec(FALSE, <<1, 0>>))

RECURSIVE RunNew(_, _)
\* <T as Default>::default() for a field of type type_name
DefaultOf(type_name, reg) ==
    CASE type_name \in {"String", "str"} -> VStr("")
      [] type_name \in IntegerTypes      -> VInt(Nat0)
      [] type_name \in {"f32", "f64"}    -> VFloat("0.0")
      [] type_name = "bool"              -> VBool(FALSE)
      [] OTHER -> RunNew(reg[type_name].item, reg)  \* impl Default: Self::new()

\* the value of the expression process_default_value produced
EvalTokens(tokens, type_name, reg) ==
    CASE tokens.tok \in {"str_to_string", "str"} -> VStr(tokens.s)
      [] tokens.tok = "int"     -> VInt(tokens.i)
      [] tokens.tok = "float"   -> VFloat(tokens.f)
      [] tokens.tok = "bool"    -> VBool(tokens.b)
      [] tokens.tok = "ident"   -> ConstValue(tokens.ident)
      [] tokens.tok = "expr"    -> ConstValue(tokens.src)
      [] tokens.tok = "default" -> DefaultOf(type_name, reg)

\* mod.rs: the generated `pub fn new() -> Self`
RunNew(item, reg) ==
    LET fa == item.field_assignments IN
    VStruct(item.name,
           [nm \in {fa[n].name : n \in DOMAIN fa} |->
               LET n == CHOOSE n \in DOMAIN fa : fa[n].name = nm
               IN EvalTokens(fa[n].value, fa[n].type_name, reg)])

(***************************************************************************)
(* TOML text: a sequence of lines, each a sequence of lexical tokens.      *)
(* A line whose first token is '#' is a comment.                           *)
(***************************************************************************)
Hash       == [t |-> "#"]
EqTok      == [t |-> "="]
LBracket   == [t |-> "["]
RBracket   == [t |-> "]"]
KeyTok(nm) == [t |-> "key", name |-> nm]
ValTok(v)  == [t |-> "val", val |-> v]
NoteTok(s) == [t |-> "note", s |-> s]
TypeTok(s) == [t |-> "type", s |-> s]
DefaultTok(r) == [t |-> "default", text |-> r]

Table(entries) == [k |-> "table", entries |-> entries]

\* a user-supplied `impl From<T> for toml::Value` (needed for a field that is
\* no primitive): only that it yields some value is known
UserValueFrom(v) == [k |-> "user", name |-> v.name]

\* toml::to_string(&{name: v}).unwrap_or_default().trim_end(): `name = v`
toml_to_string(nm, v) == <<KeyTok(nm), EqTok, ValTok(v)>>

\* format!("# {}", line)
CommentOut(line) == <<Hash>> \o line

\* format!("#{}: {}, default: {}", note_text, type_name, default_value)
NoteLine(block) ==
    <<Hash, NoteTok(block.note_text), TypeTok(block.type_name),
      DefaultTok(block.default_value)>>

\* ValueLine comparing against the type's Default::default() instead of the
\* declared default
ValueLine_zero_default(block, self, reg) ==
    LET cur  == self.fields[block.name]
        dflt == DefaultOf(block.type_name, reg)
    IN IF cur = dflt THEN CommentOut(toml_to_string(block.name, dflt))
       ELSE toml_to_string(block.name, cur)

\* the value line of a String, integer, float or bool field
ValueLine(block, self, reg) ==
    LET cur          == self.fields[block.name]
        dflt         == EvalTokens(block.cmp, block.type_name, reg)
        is_default   == cur = dflt
        cur_line     == toml_to_string(block.name, cur)
        default_line == toml_to_string(block.name, dflt)
    IN IF is_default THEN CommentOut(default_line) ELSE cur_line

\* the value line of any other field: always the commented default
OtherLine(block, self, reg) ==
    LET dflt == EvalTokens(block.cmp, block.type_name, reg)
        default_line ==
            toml_to_string(block.name,
                           IF dflt.k = "struct" THEN UserValueFrom(dflt) ELSE dflt)
    IN CommentOut(default_line)

\* the three lines vec![...] of one field block
RunFieldBlock(block, self, reg) ==
    <<NoteLine(block),
      IF block.branch = "other"
      THEN OtherLine(block, self, reg)
      ELSE ValueLine(block, self, reg),
      <<>>>>

RECURSIVE ExtendLines_reversed(_, _, _)
\* ExtendLines putting the block of a later field in front
ExtendLines_reversed(blocks, self, reg) ==
    IF blocks = <<>> THEN <<>>
    ELSE ExtendLines_reversed(Tail(blocks), self, reg)
         \o RunFieldBlock(Head(blocks), self, reg)

RECURSIVE ExtendLines(_, _, _)
ExtendLines(blocks, self, reg) ==
    IF blocks = <<>> THEN <<>>
    ELSE RunFieldBlock(Head(blocks), self, reg)
         \o ExtendLines(Tail(blocks), self, reg)

\* the generated `pub fn to_toml(&self) -> String`
RunToToml(item, self, reg) == ExtendLines(item.to_toml, self, reg)

(***************************************************************************)
(* toml::from_str::<toml::Value>: the text as a key/value tree.  Blank     *)
(* lines and comments are skipped; `key = value` adds an entry to the      *)
(* current table, `[name]` opens a table; a repeated key and any other     *)
(* line make the whole text unparseable.                                   *)
(***************************************************************************)
IsBlank(line)   == Len(line) = 0
IsComment(line) == Len(line) > 0 /\ line[1].t = "#"
IsKeyVal(line) ==
    /\ Len(line) = 3
    /\ line[1].t = "key" /\ line[2].t = "=" /\ line[3].t = "val"
IsHeader(line) ==
    /\ Len(line) = 3
    /\ line[1].t = "[" /\ line[2].t = "key" /\ line[3].t = "]"

Insert(tbl, key, v) ==
    [x \in DOMAIN tbl \cup {key} |-> IF x = key THEN v ELSE tbl[x]]

TomlErr == [ok |-> FALSE]

TomlOk(root) == [ok |-> TRUE, root |-> root]

RECURSIVE toml_parse(_, _, _)
\* text: the lines left; root: the tree so far; cur: the open table, <<>> at
\* the top level
toml_parse(text, root, cur) ==
    IF text = <<>> THEN TomlOk(root)
    ELSE LET line == Head(text) rest == Tail(text) IN
         CASE IsBlank(line) \/ IsComment(line) -> toml_parse(rest, root, cur)
           [] IsKeyVal(line) ->
                LET key == line[1].name v == line[3].val IN
                IF cur = <<>>
                THEN IF key \in DOMAIN root THEN TomlErr
                     ELSE toml_parse(rest, Insert(root, key, v), cur)
                ELSE LET tbl == root[cur[1]].entries IN
                     IF key \in DOMAIN tbl THEN TomlErr
                     ELSE toml_parse(rest,
                                     [root EXCEPT ![cur[1]] = Table(Insert(tbl, key, v))],
                                     cur)
           [] IsHeader(line) ->
                LET nm == line[2].name IN
                IF nm \in DOMAIN root THEN TomlErr
                ELSE toml_parse(rest, Insert(root, nm, Table(<<>>)), <<nm>>)
           [] OTHER -> TomlErr

toml_from_str(text) == toml_parse(text, <<>>, <<>>)

(***************************************************************************)
(* The generated from_toml.                                                *)
(***************************************************************************)
\* toml_value.get(name) giving whatever entry the table holds
Get_any_entry(root, nm) ==
    IF DOMAIN root = {} THEN <<>>
    ELSE <<root[CHOOSE key \in DOMAIN root : TRUE]>>

\* toml_value.get(name): an Option as a sequence of length <= 1
Get(root, nm) == IF nm \in DOMAIN root THEN <<root[nm]>> ELSE <<>>

\* Option<Value> -> Option<payload> for as_str, as_integer, as_float, as_bool
AsKind(opt, kind) == IF opt # <<>> /\ opt[1].k = kind THEN opt ELSE <<>>

\* i64 -> T by try_into().ok()
TryInto(opt, type_name) ==
    IF opt # <<>> /\ InRange(opt[1].i, type_name) THEN opt ELSE <<>>

\* str::parse::<T>() for the texts the documents of the model hold
StrDecimal(s) == IF s = "7" THEN <<Dec(FALSE, <<7>>)>> ELSE <<>>

StrFloat(s) == IF s = "7" THEN <<"7.0">> ELSE <<>>

\* s.parse::<T>().ok() in the fallback branch; from_str is the outcome of the
\* FromStr impl the user has to supply for a type that is no primitive
ParseStr(s, type_name, reg, from_str) ==
    CASE type_name \in IntegerTypes ->
           LET d == StrDecimal(s) IN
           IF d # <<>> /\ InRange(d[1], type_name) THEN <<VInt(d[1])>> ELSE <<>>
      [] type_name \in {"f32", "f64"} ->
           LET d == StrFloat(s) IN
           IF d # <<>> THEN <<VFloat(d[1])>> ELSE <<>>
      [] OTHER ->
           IF from_str = "ok" THEN <<RunNew(reg[type_name].item, reg)>> ELSE <<>>

UnwrapOrDefault(opt, type_name, reg) ==
    IF opt # <<>> THEN opt[1] ELSE DefaultOf(type_name, reg)

\* the parse logic of one field
RunParseLogic(a, root, reg, from_str) ==
    LET entry == Get(root, a.name) IN
    CASE a.logic = "String" ->
           UnwrapOrDefault(AsKind(entry, "str"), a.type_name, reg)
      [] a.logic \in {"i32", "u16", "u32", "u64"} ->
           UnwrapOrDefault(TryInto(AsKind(entry, "int"), a.type_name), a.type_name, reg)
      [] a.logic = "i64" ->
           UnwrapOrDefault(AsKind(entry, "int"), a.type_name, reg)
      [] a.logic = "f64" ->
           UnwrapOrDefault(AsKind(entry, "float"), a.type_name, reg)
      [] a.logic = "bool" ->
           UnwrapOrDefault(AsKind(entry, "bool"), a.type_name, reg)
      [] OTHER ->
           LET s == AsKind(entry, "str") IN
           UnwrapOrDefault(IF s = <<>> THEN <<>>
                           ELSE ParseStr(s[1].s, a.type_name, reg, from_str),
                           a.type_name, reg)

ParseFailed == [ok |-> FALSE]

Parsed(v) == [ok |-> TRUE, v |-> v]

\* RunFromToml failing on an entry that is absent or not what the field reads
RunFromToml_strict(item, toml_str, reg, from_str) ==
    LET toml_value == toml_from_str(toml_str) IN
    IF ~toml_value.ok THEN ParseFailed
    ELSE LET fa == item.from_toml IN
         IF \E n \in DOMAIN fa :
                \/ Get(toml_value.root, fa[n].name) = <<>>
                \/ Get(toml_value.root, fa[n].name)[1].k
                       # RunParseLogic(fa[n], toml_value.root, reg, from_str).k
         THEN ParseFailed
         ELSE Parsed(VStruct(item.name,
                        [nm \in {fa[n].name : n \in DOMAIN fa} |->
                            LET n == CHOOSE n \in DOMAIN fa : fa[n].name = nm
                            IN RunParseLogic(fa[n], toml_value.root, reg, from_str)]))

\* the generated `pub fn from_toml(toml_str: &str) -> Result<Self, Box<dyn Error>>`
RunFromToml(item, toml_str, reg, from_str) ==
    LET toml_value == toml_from_str(toml_str) IN
    IF ~toml_value.ok THEN ParseFailed
    ELSE LET fa == item.from_toml IN
         Parsed(VStruct(item.name,
                        [nm \in {fa[n].name : n \in DOMAIN fa} |->
                            LET n == CHOOSE n \in DOMAIN fa : fa[n].name = nm
                            IN RunParseLogic(fa[n], toml_value.root, reg, from_str)]))

(***************************************************************************)
(* Compilation of the crate: each derive runs handler; rustc then          *)
(* evaluates the generated constants __ELP_CHILD_DEPTH and                 *)
(* __ELP_ASSERT_MSG of the struct.                                         *)
(***************************************************************************)
\* elp_max returning the smaller argument
elp_max_smaller(a, b) == IF a < b THEN a ELSE b

\* __elp_max keeping its second argument
elp_max_second(a, b) == b

\* const fn __elp_max(a, b)
elp_max(a, b) == IF a > b THEN a ELSE b

\* the value of one depth expression; <T>::__ELP_CHILD_DEPTH exists only for a
\* type the derive was applied to (an Option as a sequence)
depth_expr_value(de, reg) ==
    IF de.d = "zero" THEN <<0>>
    ELSE IF de.of.path /\ de.of.last \in DOMAIN reg /\ reg[de.of.last].depth # <<>>
         THEN <<1 + reg[de.of.last].depth[1]>>
         ELSE <<>>

RECURSIVE max_fold(_, _, _)
\* Self::__elp_max(...(Self::__elp_max(0usize, d1), d2)..., dn), folded from
\* the left; acc is the fold of the expressions before `exprs`
max_fold(exprs, acc, reg) ==
    IF exprs = <<>> THEN <<acc>>
    ELSE LET d == depth_expr_value(Head(exprs), reg) IN
         IF d = <<>> THEN <<>>
         ELSE max_fold(Tail(exprs), elp_max(acc, d[1]), reg)

\* pub const __ELP_CHILD_DEPTH: usize = { max_fold }
ELP_CHILD_DEPTH(item, reg) == max_fold(item.depth_exprs, 0, reg)

\* the message of the panic in __ELP_ASSERT_MSG: concat!("Configuration
\* struct '", stringify!(#name), "' nesting level exceeds ..."): a fixed text
\* around the name of the struct
ELP_ASSERT_MSG(item) ==
    [text |-> "nesting level exceeds allowed two levels (top level + one level of nested structs)",
     struct_name |-> item.name]

\* ELP_ASSERT_MSG_panics allowing one level more
ELP_ASSERT_MSG_panics_above_two(depth) == depth > 2

\* pub const __ELP_ASSERT_MSG: the const evaluation panics
ELP_ASSERT_MSG_panics(depth) == depth > 1

\* what the struct contributes to the crate
Derived(ast, item, depth) ==
    [ast |-> ast, item |-> item, depth |-> depth,
     panic_msg |-> IF depth # <<>> /\ ELP_ASSERT_MSG_panics(depth[1])
                   THEN <<ELP_ASSERT_MSG(item)>>
                   ELSE <<>>]

\* the crate compiles with this derive in it
Compiles(item, depth) ==
    /\ item.outcome = "expanded"
    /\ depth # <<>>
    /\ ~ELP_ASSERT_MSG_panics(depth[1])

(***************************************************************************)
(* The inputs of the model.                                                *)
(***************************************************************************)
\* the longest field list of a struct in the nesting-depth runs
MaxFields == 2

\* the most lines of a hand-written document
MaxDocLines == 2

D7    == Dec(FALSE, <<7>>)
D3306 == Dec(FALSE, <<3,3,0,6>>)
D5432 == Dec(FALSE, <<5,4,3,2>>)
D6379 == Dec(FALSE, <<6,3,7,9>>)
DBig  == Dec(FALSE, <<5,0,0,0,0,0,0,0,0,0>>)
DNeg1 == Dec(TRUE, <<1>>)

\* tests.rs: the nested struct Child, derived before the structs that hold it
ChildDecl ==
    DeriveInput("Child", "struct",
        <<Field("host", TypePath("String"), LitStr("localhost"), <<"redis host">>),
          Field("port", TypePath("u16"), LitInt(D6379), <<"redis port">>)>>)

\* simple_example.rs / spec: Endpoint{host: String = "localhost", port: u16 = 5432}
EndpointDecl ==
    DeriveInput("Endpoint", "struct",
        <<Field("host", TypePath("String"), LitStr("localhost"), <<"Server hostname">>),
          Field("port", TypePath("u16"), LitInt(D5432), <<"Server port">>)>>)

\* tests.rs: Parent{feature: bool = true, child: Child}
ParentDecl ==
    DeriveInput("Parent", "struct",
        <<Field("feature", TypePath("bool"), LitBool(TRUE), <<"enable">>),
          Field("child", TypePath("Child"), NoDefault, <<>>)>>)

\* a struct that mixes a declared and an absent default
MixedDecl ==
    DeriveInput("Mixed", "struct",
        <<Field("name", TypePath("String"), NoDefault, <<>>),
          Field("level", TypePath("i8"), LitInt(D7), <<"level">>)>>)

\* the defaults a field of the given type is declared with
DefaultsFor(type_name) ==
    CASE type_name = "String" ->
           {NoDefault, LitStr("localhost"), ExprPath("localhost")}
      [] type_name \in IntegerTypes ->
           {NoDefault, LitInt(D7)}
           \cup (IF InRange(D5432, type_name) THEN {LitInt(D5432)} ELSE {})
           \cup (IF type_name = "u32" THEN {ExprPath("TEN")} ELSE {})
      [] type_name \in {"f32", "f64"} -> {NoDefault, LitFloat("1.5")}
      [] type_name = "bool" -> {NoDefault, LitBool(TRUE)}
      [] OTHER -> {NoDefault}

\* a struct cannot hold a bare `str`
FieldTypeNames == (PrimitiveNames \ {"str"}) \cup {"Child"}

OneFieldDecls ==
    UNION {{DeriveInput("Cfg", "struct", <<Field("v", TypePath(tn), d, <<"note">>)>>) :
               d \in DefaultsFor(tn)} : tn \in FieldTypeNames}

Schemas == OneFieldDecls \cup {EndpointDecl, ParentDecl, MixedDecl}

\* the crate the structs of Schemas are compiled in
DeriveOne(ast, reg) ==
    LET item == handler(ast) IN
    Derived(ast, item,
            IF item.outcome = "expanded" THEN ELP_CHILD_DEPTH(item, reg) ELSE <<>>)

BaseCrate == Insert(<<>>, "Child", DeriveOne(ChildDecl, <<>>))

\* values a caller may store in a field of the given type
TypeSamples(type_name, reg) ==
    CASE type_name = "String" -> {VStr(""), VStr("localhost"), VStr("example.com")}
      [] type_name \in IntegerTypes ->
           {VInt(d) : d \in {x \in {Nat0, D7, D5432, DNeg1} : InRange(x, type_name)}}
      [] type_name \in {"f32", "f64"} -> {VFloat("0.0"), VFloat("1.5")}
      [] type_name = "bool" -> {VBool(FALSE), VBool(TRUE)}
      [] OTHER ->
           LET n == RunNew(reg[type_name].item, reg) IN
           {n, [n EXCEPT !.fields["host"] = VStr("example.com")]}

FieldOf(ast, nm) ==
    LET n == CHOOSE n \in DOMAIN ast.fields : ast.fields[n].ident = nm
    IN ast.fields[n]

FieldNames(ast) == {ast.fields[n].ident : n \in DOMAIN ast.fields}

\* the field's declared default as a value (its zero value when none is declared)
CanonicalDefault(field, reg) ==
    EvalTokens(default_value(field).ts, field.ty.last, reg)

SampleValues(field, reg) ==
    TypeSamples(field.ty.last, reg) \cup {CanonicalDefault(field, reg)}

\* the lines a hand-written document for `ast` is made of
DocValues ==
    {VStr("db.example"), VStr("7"), VInt(D7), VInt(D3306), VInt(DBig), VInt(DNeg1),
     VFloat("1.5"), VBool(TRUE)}

NestedFieldNames(ast, reg) ==
    UNION {IF is_primitive(ast.fields[n].ty) THEN {}
           ELSE FieldNames(reg[ast.fields[n].ty.last].ast) : n \in DOMAIN ast.fields}

DocLines(ast, reg) ==
    {toml_to_string(nm, v) : nm \in FieldNames(ast), v \in DocValues}
    \cup {toml_to_string(nm, v) : nm \in NestedFieldNames(ast, reg),
                                  v \in {VStr("db.example"), VInt(D3306)}}
    \cup {toml_to_string("extra", VInt(D7))}
    \cup {<<LBracket, KeyTok(nm), RBracket>> :
            nm \in {"extra"} \cup {ast.fields[n].ident : n \in DOMAIN ast.fields}}
    \cup {<<Hash, NoteTok("a comment")>>, <<KeyTok("extra")>>}

RECURSIVE SeqsUpTo(_, _)
SeqsUpTo(S, n) ==
    IF n = 0 THEN {<<>>}
    ELSE LET shorter == SeqsUpTo(S, n - 1) IN
         shorter \cup {Append(t, x) : t \in shorter, x \in S}

Docs(ast, reg) == SeqsUpTo(DocLines(ast, reg), MaxDocLines)

(***************************************************************************)
(* The state machine.                                                      *)
(***************************************************************************)
Item == handler(schema)

NoCall(self) == [called |-> FALSE, self |-> self, text |-> <<>>]

NoResult == [called |-> FALSE, r |-> ParseFailed]

\* neither process_default_value nor field_value_to_toml_string has been
\* called directly
NoCoerce ==
    [default_expr |-> NoDefault, field_ty |-> TypePath("String"),
     called |-> FALSE, r |-> Err(ErrKind("NotCalled")),
     rendered |-> FALSE, text |-> Err(ErrKind("NotCalled"))]

\* the crate holds Child and one struct of Schemas; the caller has called new()
Init ==
    /\ registry = BaseCrate
    /\ build = "ok"
    /\ schema \in Schemas
    /\ inst = RunNew(handler(schema), registry)
    /\ out = NoCall(inst)
    /\ doc = [text |-> <<>>, src |-> <<>>]
    /\ res = NoResult
    /\ coerce = NoCoerce
    /\ last = "new"

\* the caller stores a value in a field of its instance
SetField(nm, v) ==
    /\ inst.fields[nm] # v
    /\ inst' = [inst EXCEPT !.fields[nm] = v]
    /\ last' = "set"
    /\ UNCHANGED <<registry, build, schema, out, doc, res, coerce>>

\* ToToml keeping the lines of the previous call in front of the new ones
ToToml_appending ==
    /\ out' = [called |-> TRUE, self |-> inst,
               text |-> out.text \o RunToToml(Item, inst, registry)]
    /\ last' = "to_toml"
    /\ UNCHANGED <<registry, build, schema, inst, doc, res, coerce>>

\* self.to_toml()
ToToml ==
    /\ out' = [called |-> TRUE, self |-> inst,
               text |-> RunToToml(Item, inst, registry)]
    /\ last' = "to_toml"
    /\ UNCHANGED <<registry, build, schema, inst, doc, res, coerce>>

\* Self::from_toml(text); src is the instance the text was emitted from, if any
FromToml(text, src, from_str) ==
    /\ doc' = [text |-> text, src |-> src]
    /\ res' = [called |-> TRUE, r |-> RunFromToml(Item, text, registry, from_str)]
    /\ last' = "from_toml"
    /\ UNCHANGED <<registry, build, schema, inst, out, coerce>>

\* the text of the last to_toml call is read back
ReadBack ==
    /\ out.called
    /\ \E from_str \in {"ok", "err"} : FromToml(out.text, <<out.self>>, from_str)

\* a hand-written document, waiting in doc, is read
ReadDoc ==
    /\ ~res.called
    /\ \E from_str \in {"ok", "err"} : FromToml(doc.text, <<>>, from_str)

Store ==
    \E nm \in FieldNames(schema) :
        \E v \in SampleValues(FieldOf(schema, nm), registry) : SetField(nm, v)

Next == Store \/ ToToml \/ ReadBack

Spec == Init /\ [][Next]_vars

\* the same crate; the caller holds a hand-written document
InitParse ==
    /\ registry = BaseCrate
    /\ build = "ok"
    /\ schema \in Schemas
    /\ inst = RunNew(handler(schema), registry)
    /\ out = NoCall(inst)
    /\ doc \in {[text |-> d, src |-> <<>>] : d \in Docs(schema, registry)}
    /\ res = NoResult
    /\ coerce = NoCoerce
    /\ last = "new"

NextParse == ReadDoc

SpecParse == InitParse /\ [][NextParse]_vars

(***************************************************************************)
(* The crate is compiled struct by struct: each derive adds the struct,    *)
(* its expansion and the value of its __ELP_CHILD_DEPTH to the registry.   *)
(* A derive that does not compile fails the build.                         *)
(***************************************************************************)
DepthStructNames == {"Leaf", "Mid", "Top"}

DepthTypeNames == {"i32", "String", "Leaf", "Mid"}

\* a struct whose fields f1, f2, ... have the given types and no attribute
DepthDecl(name, type_names) ==
    DeriveInput(name, "struct",
        [n \in 1..Len(type_names) |->
            Field(IF n = 1 THEN "f1" ELSE IF n = 2 THEN "f2" ELSE "f3",
                  TypePath(type_names[n]), NoDefault, <<>>)])

DepthDecls ==
    {DepthDecl(name, tns) :
        name \in DepthStructNames, tns \in SeqsUpTo(DepthTypeNames, MaxFields)}

Derive(ast) ==
    /\ build = "ok"
    /\ ast.name \notin DOMAIN registry
    /\ LET d == DeriveOne(ast, registry) IN
       /\ registry' = Insert(registry, ast.name, d)
       /\ build' = IF Compiles(d.item, d.depth) THEN "ok"
                   ELSE CASE d.item.outcome = "compile_error" -> d.item.err.kind
                          [] d.item.outcome = "panic" -> "proc-macro derive panicked"
                          [] d.depth = <<>> -> "cannot find type"
                          [] OTHER -> "nesting level exceeds allowed two levels"
    /\ last' = "derive"
    /\ UNCHANGED <<schema, inst, out, doc, res, coerce>>

InitCrate ==
    /\ registry = <<>>
    /\ build = "ok"
    /\ schema = ChildDecl
    /\ inst = RunNew(handler(ChildDecl), <<>>)
    /\ out = NoCall(inst)
    /\ doc = [text |-> <<>>, src |-> <<>>]
    /\ res = NoResult
    /\ coerce = NoCoerce
    /\ last = "none"

NextCrate == \E ast \in DepthDecls : Derive(ast)

SpecCrate == InitCrate /\ [][NextCrate]_vars

(***************************************************************************)
(* One more derive in a crate that already holds Leaf (depth 0) and Mid    *)
(* (depth 1): structs with named fields or tuple structs, enums and        *)
(* unions, with valid and invalid defaults, with and without nesting, with *)
(* fields of every primitive type a struct can hold, of a type that is no  *)
(* type path and of a container type the derive was never applied to.      *)
(***************************************************************************)
CompileDecls ==
    LET named ==
            {Field("a", TypePath("i32"), NoDefault, <<>>),
             Field("b", TypePath("String"), LitStr("localhost"), <<"host">>),
             Field("p", TypePath("u16"), LitStr("localhost"), <<>>),
             Field("q", TypePath("i8"), LitInt(Dec(FALSE, <<1,0,0,0>>)), <<>>),
             Field("s", TypePath("String"), LitChar("a"), <<"bad">>),
             Field("leaf", TypePath("Leaf"), NoDefault, <<>>),
             Field("mid", TypePath("Mid"), NoDefault, <<>>),
             Field("h", TypePath("String"), ExprPath("localhost"), <<>>),
             Field("t", TypePath("bool"), LitBool(TRUE), <<"flag">>),
             Field("r", TypeOther("&'static str"), NoDefault, <<>>),
             Field("v", TypePath("Vec"), NoDefault, <<>>)}
        primitive ==
            {<<Field("x", TypePath(tn), NoDefault, <<>>)>> :
                tn \in PrimitiveNames \ {"str"}}
        unnamed ==
            {UnnamedField(TypePath("u32"), LitInt(Dec(FALSE, <<1>>)), <<>>),
             UnnamedField(TypePath("u16"), LitStr("localhost"), <<>>)}
        distinct(fs) == \A m, n \in DOMAIN fs : fs[m] = fs[n] => m = n
        records == {fs \in SeqsUpTo(named, MaxFields) : distinct(fs)} \cup primitive
        tuples  == {fs \in SeqsUpTo(unnamed, MaxFields) : fs # <<>> /\ distinct(fs)}
    IN {DeriveInput("Top", "struct", fs) : fs \in records \cup tuples}
       \cup {DeriveInput("Top", "enum", fs) : fs \in records \cup tuples}
       \cup {DeriveInput("Top", "union", fs) : fs \in records}

InitCompile ==
    /\ registry =
          LET leaf == Insert(<<>>, "Leaf", DeriveOne(DepthDecl("Leaf", <<"i32">>), <<>>))
          IN Insert(leaf, "Mid", DeriveOne(DepthDecl("Mid", <<"Leaf">>), leaf))
    /\ build = "ok"
    /\ schema = ChildDecl
    /\ inst = RunNew(handler(ChildDecl), <<>>)
    /\ out = NoCall(inst)
    /\ doc = [text |-> <<>>, src |-> <<>>]
    /\ res = NoResult
    /\ coerce = NoCoerce
    /\ last = "none"

SpecCompile == InitCompile /\ [][\E ast \in CompileDecls : Derive(ast)]_vars

(***************************************************************************)
(* process_default_value and field_value_to_toml_string called directly,   *)
(* as their unit tests call them, on a default expression and a declared   *)
(* type.                                                                   *)
(***************************************************************************)
\* integer literals: 0, small values, and the largest and smallest value of
\* every integer type with the values next to them (the magnitude of a signed
\* type's smallest value is one above its largest).  The digits stand for the
\* integer: zero carries no sign.
CoerceInts ==
    {Nat0, D7, DNeg1, DBig,
     Dec(FALSE, <<1,0,0,0>>), Dec(TRUE, <<1,2,9>>), Dec(FALSE, <<2,5,6>>),
     Dec(FALSE, <<6,5,5,3,6>>), Dec(TRUE, <<3,2,7,6,9>>)}
    \cup {Dec(neg, MaxMag(ty)) : neg \in BOOLEAN, ty \in IntegerTypes}
    \cup {Dec(neg, MinMag(ty)) : neg \in BOOLEAN, ty \in SignedTypes}

\* the default expressions handed to process_default_value
CoerceExprs ==
    {LitStr("localhost"), LitStr(""), LitFloat("1.5"), LitFloat("-3.14"),
     LitBool(TRUE), LitBool(FALSE), LitChar("a"), LitByte("a"),
     ExprPath("localhost"), ExprPath("TEN"), ExprOther("some_function()"),
     ExprOther("-5")}
    \cup {LitInt(i) : i \in CoerceInts}

\* the declared types: every primitive name, a user struct, and types that
\* are no type path
CoerceTypes ==
    {TypePath(tn) : tn \in PrimitiveNames \cup {"Child"}}
    \cup {TypeOther("&'static str"), TypeOther("(u8, u8)")}

InitCoerce ==
    /\ registry = <<>>
    /\ build = "ok"
    /\ schema = ChildDecl
    /\ inst = RunNew(handler(ChildDecl), <<>>)
    /\ out = NoCall(inst)
    /\ doc = [text |-> <<>>, src |-> <<>>]
    /\ res = NoResult
    /\ coerce \in {[NoCoerce EXCEPT !.default_expr = e, !.field_ty = ty] :
                      e \in CoerceExprs \cup {NoDefault}, ty \in CoerceTypes}
    /\ last = "none"

\* process_default_value(&default_expr, &field_ty)
Coerce ==
    /\ ~coerce.called
    /\ coerce.default_expr # NoDefault
    /\ coerce' = [coerce EXCEPT
                    !.called = TRUE,
                    !.r = process_default_value(coerce.default_expr, coerce.field_ty)]
    /\ last' = "process_default_value"
    /\ UNCHANGED <<registry, build, schema, inst, out, doc, res>>

\* field_value_to_toml_string(&field, &default_expr, &field_ty), where the
\* default may be absent
Render ==
    /\ ~coerce.rendered
    /\ coerce' = [coerce EXCEPT
                    !.rendered = TRUE,
                    !.text = field_value_to_toml_string(coerce.default_expr,
                                                        coerce.field_ty)]
    /\ last' = "field_value_to_toml_string"
    /\ UNCHANGED <<registry, build, schema, inst, out, doc, res>>

NextCoerce == Coerce \/ Render

SpecCoerce == InitCoerce /\ [][NextCoerce]_vars

(***************************************************************************)
(* Properties.                                                             *)
(***************************************************************************)
\* the fields the spec calls primitive: String, the integers, floats, bool
PrimitiveFieldNumbers(ast) ==
    {n \in DOMAIN ast.fields : ast.fields[n].ty.last \in PrimitiveNames}

\* to_toml emits three lines per field; the second is the field's value line
ValueLineOf(text, n) == text[3 * n - 1]

\* the zero value of a primitive type, as the spec lists them
ZeroValue(type_name) ==
    CASE type_name \in {"String", "str"} -> VStr("")
      [] type_name \in IntegerTypes      -> VInt(Nat0)
      [] type_name \in {"f32", "f64"}    -> VFloat("0.0")
      [] type_name = "bool"              -> VBool(FALSE)

\* the kind of TOML value that matches a primitive type
KindOf(type_name) ==
    CASE type_name \in {"String", "str"} -> "str"
      [] type_name \in IntegerTypes      -> "int"
      [] type_name \in {"f32", "f64"}    -> "float"
      [] type_name = "bool"              -> "bool"

\* an entry of the matching kind whose value fits the type
Fits(v, type_name) ==
    /\ v.k = KindOf(type_name)
    /\ v.k = "int" => InRange(v.i, type_name)

\* C1: round trip: reading back the text to_toml emitted for an instance
\* succeeds and gives the instance's value on every field whose value line was
\* emitted live.
C1_RoundTrip ==
    (last = "from_toml" /\ doc.src # <<>>) =>
        /\ res.r.ok
        /\ \A n \in DOMAIN schema.fields :
             IsKeyVal(ValueLineOf(doc.text, n)) =>
                res.r.v.fields[schema.fields[n].ident]
                    = doc.src[1].fields[schema.fields[n].ident]

\* C2: the commented form of a default parses like the live form:
\* from_toml(to_toml(new())) equals new().
C2_NewRoundTrip ==
    (last = "from_toml" /\ doc.src # <<>>
        /\ doc.src[1] = RunNew(Item, registry)) =>
        res.r.ok /\ res.r.v = doc.src[1]

\* C3: to_toml emits the value line of a primitive field commented out,
\* as `# name = default`, if and only if the field's value equals its
\* canonical default, and as the live line `name = value` otherwise.
C3_CommentedIffDefault ==
    out.called =>
        \A n \in PrimitiveFieldNumbers(schema) :
            LET field == schema.fields[n]
                cur   == out.self.fields[field.ident]
                line  == ValueLineOf(out.text, n)
            IN IF cur = CanonicalDefault(field, registry)
               THEN line = <<Hash, KeyTok(field.ident), EqTok, ValTok(cur)>>
               ELSE line = <<KeyTok(field.ident), EqTok, ValTok(cur)>>

\* C3 witness: Endpoint with host set to "example.com": the host line is live,
\* the port line is commented.
C3_Witness ==
    /\ out.called
    /\ schema = EndpointDecl
    /\ out.self.fields["host"] = VStr("example.com")
    /\ IsKeyVal(ValueLineOf(out.text, 1))
    /\ IsComment(ValueLineOf(out.text, 2))

\* C4: for an instance fresh from new(), the value line of every primitive
\* field is a comment.
C4_NewIsAllComments ==
    (out.called /\ out.self = RunNew(Item, registry)) =>
        \A n \in PrimitiveFieldNumbers(schema) :
            IsComment(ValueLineOf(out.text, n))

\* C4 witness: to_toml was called on new() of a struct that mixes a declared
\* and an absent default.
C4_Witness ==
    /\ out.called
    /\ schema = MixedDecl
    /\ out.self = RunNew(Item, registry)
    /\ last = "to_toml"

C6_FailsIffUnparseable ==
    res.called => (res.r.ok <=> toml_from_str(doc.text).ok)

\* C6 witness: a bool field whose entry is a string: from_toml succeeds and
\* the field is false.
C6_Witness ==
    /\ res.called
    /\ res.r.ok
    /\ schema.name = "Cfg"
    /\ schema.fields[1].ty.last = "bool"
    /\ doc.text = <<toml_to_string("v", VStr("db.example"))>>
    /\ res.r.v.fields["v"] = VBool(FALSE)

\* C7: in a successful from_toml a primitive field whose entry is absent, of
\* the wrong kind or out of the type's range gets the zero value of its type.
C7_FallbackIsZero ==
    (res.called /\ res.r.ok) =>
        \A n \in PrimitiveFieldNumbers(schema) :
            LET field == schema.fields[n]
                entry == Get(toml_from_str(doc.text).root, field.ident)
            IN (entry = <<>> \/ ~Fits(entry[1], field.ty.last)) =>
                  res.r.v.fields[field.ident] = ZeroValue(field.ty.last)

\* C8: for a field of an integer type, of f32 or f64, or of bool, from_toml
\* reads a present entry of the matching kind that fits the type as that value.
C8_ReadsMatchingEntry ==
    (res.called /\ res.r.ok) =>
        \A n \in PrimitiveFieldNumbers(schema) :
            LET field == schema.fields[n]
                entry == Get(toml_from_str(doc.text).root, field.ident)
            IN (field.ty.last # "String" /\ entry # <<>>
                    /\ Fits(entry[1], field.ty.last)) =>
                  res.r.v.fields[field.ident] = entry[1]

\* C9: a nested field is built by the nested struct's parser from the entry's
\* sub-tree: its fields take the values written under its section; with no
\* entry the field is the nested struct's all-defaults instance.
C9_NestedFromSubTree ==
    (res.called /\ res.r.ok) =>
        \A n \in DOMAIN schema.fields \ PrimitiveFieldNumbers(schema) :
            LET field  == schema.fields[n]
                nested == registry[field.ty.last]
                entry  == Get(toml_from_str(doc.text).root, field.ident)
                got    == res.r.v.fields[field.ident]
            IN /\ entry = <<>> => got = RunNew(nested.item, registry)
               /\ (entry # <<>> /\ entry[1].k = "table") =>
                     \A m \in PrimitiveFieldNumbers(nested.ast) :
                         LET nf == nested.ast.fields[m]
                             ne == Get(entry[1].entries, nf.ident)
                         IN (ne # <<>> /\ Fits(ne[1], nf.ty.last)) =>
                               got.fields[nf.ident] = ne[1]

\* what the spec gives as the depth contribution of one field: 0 for a
\* primitive field, 1 + the nested struct's depth for a nested field
FieldDepth(field, reg) ==
    IF field.ty.last \in PrimitiveNames THEN 0
    ELSE 1 + reg[field.ty.last].depth[1]

\* the largest member of a non-empty finite set of integers
SetMax(S) == CHOOSE m \in S : \A d \in S : m >= d

\* C10: the depth of a struct is the largest contribution of its fields, and 0
\* when it has no field: 0 when every field is primitive, 1 when its nested
\* fields are all of depth 0.
C10_DepthIsMaxOverFields ==
    \A name \in DOMAIN registry :
        registry[name].depth # <<>> =>
            LET fields == registry[name].ast.fields IN
            registry[name].depth[1]
                = SetMax({0} \cup {FieldDepth(fields[n], registry) :
                                      n \in DOMAIN fields})

\* C10 witness: Top holds a primitive field and a Mid of depth 1, in either
\* order, and has depth 2.
C10_Witness ==
    /\ "Top" \in DOMAIN registry
    /\ registry["Top"].depth = <<2>>
    /\ \E n \in DOMAIN registry["Top"].ast.fields :
           registry["Top"].ast.fields[n].ty.last = "i32"
    /\ registry["Mid"].depth = <<1>>

\* the wrong-type error of each kind of literal
WrongTypeError(lit) ==
    CASE lit = "str"   -> "StringLiteralWrongType"
      [] lit = "int"   -> "IntegerLiteralWrongType"
      [] lit = "float" -> "FloatLiteralWrongType"
      [] lit = "bool"  -> "BooleanLiteralWrongType"

\* the type names each kind of literal may be declared against
AcceptedTypes(lit) ==
    CASE lit = "str"   -> {"String", "str"}
      [] lit = "int"   -> {"i8", "i16", "i32", "i64", "i128", "isize",
                           "u8", "u16", "u32", "u64", "u128", "usize"}
      [] lit = "float" -> {"f32", "f64"}
      [] lit = "bool"  -> {"bool"}

\* C17: process_default_value accepts a string literal only for String or
\* str, an integer literal only for the twelve integer types, a float literal
\* only for f32 or f64, a bool literal only for bool; every other pair is
\* rejected with the wrong-type error of the literal's kind, which carries the
\* declared type name.  (An integer literal of an accepted type can still be
\* refused by the range check, see C18.)
C17_LiteralKindMatchesType ==
    (coerce.called /\ coerce.field_ty.path /\ coerce.default_expr.e = "lit"
        /\ coerce.default_expr.lit \in {"str", "int", "float", "bool"}) =>
        LET lit == coerce.default_expr.lit
            tn  == coerce.field_ty.last
        IN IF tn \in AcceptedTypes(lit)
           THEN coerce.r.ok \/ (lit = "int" /\ coerce.r.err.kind = "ParseError")
           ELSE /\ ~coerce.r.ok
                /\ coerce.r.err = [kind |-> WrongTypeError(lit), type_name |-> tn]

\* C17 witness: "localhost" against u16 is StringLiteralWrongType naming u16.
C17_Witness ==
    /\ coerce.called
    /\ coerce.default_expr = LitStr("localhost")
    /\ coerce.field_ty = TypePath("u16")
    /\ coerce.r = [ok |-> FALSE,
                   err |-> [kind |-> "StringLiteralWrongType", type_name |-> "u16"]]

\* decimal digits of twice the number with digits m: a digit sends a carry
\* to its left exactly when it is 5 or more
Double(m) ==
    LET body == [n \in 1..Len(m) |->
                    (2 * m[n] + (IF n < Len(m) /\ m[n + 1] >= 5 THEN 1 ELSE 0)) % 10]
    IN IF m[1] >= 5 THEN <<1>> \o body ELSE body

\* the number with digits m, doubled k times (each intermediate result is
\* bound as a value, so that it is computed once)
RECURSIVE DoubleTimes(_, _)
DoubleTimes(m, k) ==
    IF k = 0 THEN m
    ELSE CHOOSE r \in {DoubleTimes(d, k - 1) : d \in {Double(m)}} : TRUE

\* decimal digits of 2^n, in runs of at most 32 doublings
RECURSIVE Pow2(_)
Pow2(n) ==
    IF n <= 32 THEN DoubleTimes(<<1>>, n)
    ELSE CHOOSE r \in {DoubleTimes(h, 32) : h \in {Pow2(n - 32)}} : TRUE

\* the width of an integer type in bits (isize and usize on a 64-bit target)
Bits(ty) ==
    CASE ty \in {"i8", "u8"}     -> 8
      [] ty \in {"i16", "u16"}   -> 16
      [] ty \in {"i32", "u32"}   -> 32
      [] ty \in {"i128", "u128"} -> 128
      [] OTHER                   -> 64

\* the integer x lies in the range of type ty: -2^(w-1) <= x < 2^(w-1) for a
\* signed type of w bits, 0 <= x < 2^w for an unsigned one
ValueInRange(x, ty) ==
    IF ty \in {"i8", "i16", "i32", "i64", "i128", "isize"}
    THEN IF x.neg THEN MagLeq(x.mag, Pow2(Bits(ty) - 1))
                  ELSE MagLess(x.mag, Pow2(Bits(ty) - 1))
    ELSE (~x.neg \/ x.mag = <<0>>) /\ MagLess(x.mag, Pow2(Bits(ty)))

\* C18: for an integer literal (its digits carry the sign) and each of the
\* twelve integer types, coercion succeeds exactly when the value lies in the
\* type's range; otherwise it is rejected with the parse error that carries
\* the decimal text and the target type.
C18_IntegerRangeChecked ==
    (coerce.called /\ coerce.field_ty.path
        /\ coerce.default_expr.e = "lit" /\ coerce.default_expr.lit = "int"
        /\ coerce.field_ty.last \in AcceptedTypes("int")) =>
        LET i  == coerce.default_expr.i
            tn == coerce.field_ty.last
        IN IF ValueInRange(i, tn)
           THEN coerce.r.ok /\ coerce.r.ts = [tok |-> "int", ty |-> tn, i |-> i]
           ELSE /\ ~coerce.r.ok
                /\ coerce.r.err = [kind |-> "ParseError", type_name |-> tn, i |-> i]

\* C18 witness: 1000 against i8 is a parse error naming 1000 and i8.
C18_Witness ==
    /\ coerce.called
    /\ coerce.default_expr = LitInt(Dec(FALSE, <<1,0,0,0>>))
    /\ coerce.field_ty = TypePath("i8")
    /\ ~coerce.r.ok
    /\ coerce.r.err.kind = "ParseError"
    /\ coerce.r.err.i = Dec(FALSE, <<1,0,0,0>>)
    /\ coerce.r.err.type_name = "i8"

WithDepth == {name \in DOMAIN registry : registry[name].depth # <<>>}

Artifacts(item) == DOMAIN item \cap {"field_assignments", "to_toml", "from_toml"}

\* C12: for a struct whose depth exceeds 1 the output of the derive holds
\* none of new, to_toml, from_toml.
C12_NoArtifactsWhenTooDeep ==
    \A name \in WithDepth :
        registry[name].depth[1] > 1 => Artifacts(registry[name].item) = {}

\* the depth the spec gives a declaration: the largest contribution of its
\* fields whose types are known, 0 without such fields
DeclDepth(ast, reg) ==
    SetMax({0} \cup {FieldDepth(ast.fields[n], reg) :
                       n \in {m \in DOMAIN ast.fields :
                                \/ ast.fields[m].ty.last \in PrimitiveNames
                                \/ ast.fields[m].ty.last \in DOMAIN reg}})

\* the fields of a declaration whose declared default is not coerced
BadDefaults(ast) ==
    {n \in DOMAIN ast.fields :
        /\ ast.fields[n].default # NoDefault
        /\ ~process_default_value(ast.fields[n].default, ast.fields[n].ty).ok}

\* the check that rejects a declaration when the checks run in the order
\* shape, field names, nesting depth, defaults
StageInOrder(ast, reg) ==
    CASE ast.data # "struct"                         -> "shape"
      [] \E n \in DOMAIN ast.fields : ~ast.fields[n].named -> "names"
      [] DeclDepth(ast, reg) > 1                     -> "depth"
      [] BadDefaults(ast) # {}                       -> "defaults"
      [] OTHER                                       -> "none"

\* the check that stopped the build
StageReported ==
    CASE build = "ok"                                       -> "none"
      [] build = "OnlySupportsStructs"                      -> "shape"
      [] build \in {"FieldMustHaveName", "proc-macro derive panicked"} -> "names"
      [] build = "nesting level exceeds allowed two levels" -> "depth"
      [] OTHER                                              -> "defaults"

\* C13: the checks run in the order shape, field names, nesting depth,
\* defaults and the first violation in that order is the one reported: a
\* struct that is too deep and has an ill-typed default gets the nesting error.
C13_ChecksInOrder ==
    (last = "derive"
        /\ \A n \in DOMAIN registry["Top"].ast.fields :
               /\ registry["Top"].ast.fields[n].ty.path
               /\ registry["Top"].ast.fields[n].ty.last
                     \in PrimitiveNames \cup {"Leaf", "Mid"}) =>
        StageReported = StageInOrder(registry["Top"].ast, registry)

\* C14: when the default of a field of a struct with named fields is not
\* coerced, handler returns the error of the first such field in declaration
\* order and nothing else, whatever the later fields are.
C14_FirstDefaultErrorOnly ==
    \A name \in DOMAIN registry :
        LET ast == registry[name].ast
            bad == BadDefaults(ast)
        IN (ast.data = "struct" /\ bad # {}
                /\ \A n \in DOMAIN ast.fields : ast.fields[n].named) =>
              LET first == CHOOSE n \in bad : \A m \in bad : n <= m
                  field == ast.fields[first]
              IN /\ registry[name].item =
                       [outcome |-> "compile_error",
                        err |-> process_default_value(field.default, field.ty).err]
                 /\ registry[name].depth = <<>>
                 /\ build = registry[name].item.err.kind

\* C14 witness: Top { p: u16 = "localhost", q: i8 = 1000 } is rejected with
\* the error of p.
C14_Witness ==
    /\ last = "derive"
    /\ registry["Top"].ast.data = "struct"
    /\ Len(registry["Top"].ast.fields) = 2
    /\ registry["Top"].ast.fields[1].ident = "p"
    /\ registry["Top"].ast.fields[2].ident = "q"
    /\ registry["Top"].item.err = [kind |-> "StringLiteralWrongType", type_name |-> "u16"]

\* C15: an enum or a union is rejected with the only-structs error, whatever
\* it holds, and nothing is generated for it.
C15_OnlyStructs ==
    \A name \in DOMAIN registry :
        registry[name].ast.data # "struct" =>
            /\ registry[name].item =
                  [outcome |-> "compile_error", err |-> [kind |-> "OnlySupportsStructs"]]
            /\ registry[name].depth = <<>>
            /\ build = "OnlySupportsStructs"

\* C15 witness: an enum holding an unnamed field with an ill-typed default.
C15_Witness ==
    /\ last = "derive"
    /\ registry["Top"].ast.data = "enum"
    /\ registry["Top"].ast.fields = <<UnnamedField(TypePath("u16"), LitStr("localhost"), <<>>)>>
    /\ registry["Top"].item.err.kind = "OnlySupportsStructs"

\* C16: a struct with an unnamed field is rejected with the FieldMustHaveName
\* error, returned as an error value, and nothing is generated for it.
C16_UnnamedFieldIsError ==
    \A name \in DOMAIN registry :
        LET ast == registry[name].ast
        IN (ast.data = "struct" /\ \E n \in DOMAIN ast.fields : ~ast.fields[n].named) =>
              /\ registry[name].item.outcome = "compile_error"
              /\ registry[name].item.err.kind = "FieldMustHaveName"

\* the value a declared default stands for
ValueOfDefault(default, type_name) ==
    CASE default.e = "lit" /\ default.lit = "str"   -> VStr(default.s)
      [] default.e = "lit" /\ default.lit = "int"   -> VInt(default.i)
      [] default.e = "lit" /\ default.lit = "float" -> VFloat(default.f)
      [] default.e = "lit" /\ default.lit = "bool"  -> VBool(default.b)
      [] default.e = "path" ->
           IF type_name \in {"String", "str"}
           THEN VStr(default.ident)
           ELSE ConstValue(default.ident)
      [] OTHER -> ConstValue(default.src)

\* C21: new() gives every field that declares a default the value of that
\* default and every other field the zero value of its type (for a nested
\* struct, that struct's new()); a coercion error of the derive is always the
\* error of a field that declares a default.
C21_NewValues ==
    \A name \in DOMAIN registry :
        LET ast  == registry[name].ast
            item == registry[name].item
        IN (ast.data = "struct" /\ \A n \in DOMAIN ast.fields : ast.fields[n].named) =>
            /\ (item.outcome = "expanded" /\ registry[name].depth # <<>>) =>
                 \A n \in DOMAIN ast.fields :
                     LET field == ast.fields[n]
                         tn    == field.ty.last
                     IN RunNew(item, registry).fields[field.ident] =
                          IF field.default # NoDefault
                          THEN ValueOfDefault(field.default, tn)
                          ELSE IF tn \in PrimitiveNames
                               THEN ZeroValue(tn)
                               ELSE RunNew(registry[tn].item, registry)
            /\ (item.outcome = "compile_error" /\ item.err.kind # "syn") =>
                 \E n \in DOMAIN ast.fields :
                     /\ ast.fields[n].default # NoDefault
                     /\ process_default_value(ast.fields[n].default,
                                              ast.fields[n].ty) = Err(item.err)

\* C21 witness: Top { b: String = "localhost", leaf: Leaf } was derived: new()
\* holds "localhost" and the Leaf of all zero values.
C21_Witness ==
    /\ last = "derive"
    /\ registry["Top"].item.outcome = "expanded"
    /\ Len(registry["Top"].ast.fields) = 2
    /\ registry["Top"].ast.fields[1].ident = "b"
    /\ registry["Top"].ast.fields[2].ident = "leaf"
    /\ RunNew(registry["Top"].item, registry).fields =
          [b |-> VStr("localhost"),
           leaf |-> VStruct("Leaf", [f1 |-> VInt(Nat0)])]

\* a field of a type that is no type path and without a default was derived:
\* the derive is rejected by the TOML generation, not by the coercer
C21_WitnessNoDefault ==
    /\ last = "derive"
    /\ registry["Top"].ast.data = "struct"
    /\ \E n \in DOMAIN registry["Top"].ast.fields :
          registry["Top"].ast.fields[n].ident = "r"
    /\ registry["Top"].item = CompileError(ErrSyn("unsupported type format"))

\* a value written as text
TextOf(v) ==
    CASE v.k = "str"   -> Quoted(v.s)
      [] v.k = "int"   -> Digits(v.i)
      [] v.k = "float" -> FDigits(v.f)
      [] v.k = "bool"  -> BoolText(v.b)

\* the default a comment line shows: the canonical default written as text;
\* a reference to a named constant is shown by its name
DefaultText(field, reg) ==
    IF field.default.e = "path" /\ field.ty.last \notin {"String", "str"}
    THEN Bare(field.default.ident)
    ELSE TextOf(CanonicalDefault(field, reg))

C23_NestedSection ==
    out.called =>
        \A n \in DOMAIN schema.fields \ PrimitiveFieldNumbers(schema) :
            LET field  == schema.fields[n]
                nested == RunToToml(registry[field.ty.last].item,
                                    out.self.fields[field.ident], registry)
            IN \E p \in 1..Len(out.text) :
                  /\ out.text[p] = <<LBracket, KeyTok(field.ident), RBracket>>
                  /\ p + Len(nested) + 1 <= Len(out.text)
                  /\ SubSeq(out.text, p + 1, p + Len(nested)) = nested
                  /\ out.text[p + Len(nested) + 1] = <<>>

\* C24: the error for a struct whose depth exceeds 1 names the struct and
\* the depth that was measured.
C24_ErrorNamesDepth ==
    \A name \in WithDepth :
        registry[name].depth[1] > 1 =>
            /\ registry[name].panic_msg # <<>>
            /\ registry[name].panic_msg[1].struct_name = name
            /\ "level" \in DOMAIN registry[name].panic_msg[1]
            /\ registry[name].panic_msg[1].level = registry[name].depth[1]

\* C25: a default that is neither a literal nor a path is accepted against
\* every declared type that is a type path, and the result is the expression
\* itself: nothing about it is checked against the type.
C25_OtherExprPassedThrough ==
    (coerce.called /\ coerce.field_ty.path /\ coerce.default_expr.e = "other") =>
        coerce.r = [ok |-> TRUE,
                    ts |-> [tok |-> "expr", src |-> coerce.default_expr.src]]

\* C25 witness: the expression -5 against u8 is passed through.
C25_Witness ==
    /\ coerce.called
    /\ coerce.default_expr = ExprOther("-5")
    /\ coerce.field_ty = TypePath("u8")
    /\ coerce.r.ok
    /\ coerce.r.ts.src = "-5"

\* C27: against a declared type that is no type path the result is the
\* UnsupportedTypeFormat error, whatever the default expression is.
C27_TypeShapeFirst ==
    (coerce.called /\ ~coerce.field_ty.path) =>
        coerce.r = [ok |-> FALSE, err |-> [kind |-> "UnsupportedTypeFormat"]]

\* C27 witness: some_function() against a tuple type is rejected, though the
\* expression would be passed through against a type path.
C27_Witness ==
    /\ coerce.called
    /\ coerce.default_expr = ExprOther("some_function()")
    /\ coerce.field_ty = TypeOther("(u8, u8)")
    /\ ~coerce.r.ok
    /\ coerce.r.err.kind = "UnsupportedTypeFormat"

\* the text the comment line shows for a default, case by case
ShownDefault(default, type_name) ==
    CASE default.e = "lit" /\ default.lit = "str"   -> [r |-> "quoted", s |-> default.s]
      [] default.e = "lit" /\ default.lit = "int"   -> [r |-> "digits", i |-> default.i]
      [] default.e = "lit" /\ default.lit = "float" -> [r |-> "fdigits", f |-> default.f]
      [] default.e = "lit" /\ default.lit = "bool"  -> [r |-> "bool", b |-> default.b]
      [] default.e = "path" /\ type_name \in {"String", "str"} ->
           [r |-> "quoted", s |-> default.ident]
      [] default.e = "path"  -> [r |-> "bare", s |-> default.ident]
      [] default.e = "other" -> [r |-> "bare", s |-> "default_value"]
      [] default.e = "none" /\ type_name \in {"String", "str"} ->
           [r |-> "quoted", s |-> ""]
      [] default.e = "none" /\ type_name \in IntegerTypes ->
           [r |-> "digits", i |-> [neg |-> FALSE, mag |-> <<0>>]]
      [] default.e = "none" /\ type_name \in {"f32", "f64"} ->
           [r |-> "fdigits", f |-> "0.0"]
      [] default.e = "none" /\ type_name = "bool" -> [r |-> "bool", b |-> FALSE]
      [] default.e = "none" -> [r |-> "bare", s |-> "null"]

\* C26: for a type path and a default that can reach a comment line (absent,
\* a string, integer, float or bool literal, an identifier, any other
\* expression), field_value_to_toml_string succeeds with: the string in
\* quotes; the digits; true or false; the identifier in quotes for String and
\* str and bare for any other type; default_value for any other expression;
\* and without a default "", 0, 0.0, false or null by the type.
C26_ShownDefault ==
    (coerce.rendered /\ coerce.field_ty.path
        /\ (coerce.default_expr.e = "lit" =>
               coerce.default_expr.lit \in {"str", "int", "float", "bool"})) =>
        coerce.text =
            [ok |-> TRUE,
             ts |-> ShownDefault(coerce.default_expr, coerce.field_ty.last)]

\* C26 witness: the identifier TEN is shown bare against u32.
C26_Witness ==
    /\ coerce.rendered
    /\ coerce.default_expr = ExprPath("TEN")
    /\ coerce.field_ty = TypePath("u32")
    /\ coerce.text = [ok |-> TRUE, ts |-> [r |-> "bare", s |-> "TEN"]]

\* the depth constant handler generates for a struct with the given fields,
\* evaluated in the crate as it is
DepthOfFields(name, fields) ==
    max_fold([n \in DOMAIN fields |-> depth_expr(fields[n])], 0, registry)

\* the fields a struct can be given in addition: of a primitive type or of a
\* derived struct whose depth constant has a value
AddedFields ==
    {Field("fx", TypePath(tn), NoDefault, <<>>) :
        tn \in {"i32", "String"} \cup WithDepth}

\* C28: the depth of a derived struct is the same for every order of its
\* fields, and a struct with one more field, in front or at the end, has at
\* least that depth.
C28_DepthOrderAndGrowth ==
    \A name \in WithDepth :
        LET fields == registry[name].ast.fields
            depth  == registry[name].depth
        IN /\ \A p \in Permutations(DOMAIN fields) :
                 DepthOfFields(name, [n \in DOMAIN fields |-> fields[p[n]]]) = depth
           /\ \A field \in {f \in AddedFields : f.ty.last # name} :
                 /\ DepthOfFields(name, Append(fields, field))[1] >= depth[1]
                 /\ DepthOfFields(name, <<field>> \o fields)[1] >= depth[1]

\* C28 witness: a struct holding a Leaf and then an i32 was derived with
\* depth 1, while Mid (depth 1) is there to be added as a field.
C28_Witness ==
    /\ "Mid" \in WithDepth
    /\ registry["Mid"].depth = <<1>>
    /\ "Top" \in WithDepth
    /\ registry["Top"].ast = DepthDecl("Top", <<"Leaf", "i32">>)
    /\ registry["Top"].depth = <<1>>

RECURSIVE DropExtras(_, _, _)
\* the text without the top-level entries whose keys are none of `names`: a
\* `key = value` line above the first header, and a header with the lines of
\* its table; `table` tells where the lines are: at the top level ("top"),
\* in a table that is kept ("keep") or in one that is dropped ("drop")
DropExtras(text, names, table) ==
    IF text = <<>> THEN <<>>
    ELSE LET line == Head(text) rest == Tail(text) IN
         IF IsHeader(line)
         THEN IF line[2].name \in names
              THEN <<line>> \o DropExtras(rest, names, "keep")
              ELSE DropExtras(rest, names, "drop")
         ELSE IF \/ table = "drop"
                 \/ table = "top" /\ IsKeyVal(line) /\ line[1].name \notin names
              THEN DropExtras(rest, names, table)
              ELSE <<line>> \o DropExtras(rest, names, table)

\* C29: what from_toml returns for a text that is TOML is what it returns
\* for the text without the top-level entries that match no field; and for a
\* text of top-level lines only, what it returns is the same for every order
\* of the lines.
C29_OnlyMatchingEntries ==
    res.called =>
        \A from_str \in {"ok", "err"} :
            res.r = RunFromToml(Item, doc.text, registry, from_str) =>
                /\ toml_from_str(doc.text).ok =>
                      RunFromToml(Item, DropExtras(doc.text, FieldNames(schema), "top"),
                                  registry, from_str) = res.r
                /\ (\A n \in DOMAIN doc.text : ~IsHeader(doc.text[n])) =>
                      \A p \in Permutations(DOMAIN doc.text) :
                          RunFromToml(Item, [n \in DOMAIN doc.text |-> doc.text[p[n]]],
                                      registry, from_str) = res.r

\* C29 witness: Endpoint was read from a text holding an entry that matches no
\* field in front of the entry of host.
C29_Witness ==
    /\ res.called
    /\ schema = EndpointDecl
    /\ doc.text = <<toml_to_string("extra", VInt(D7)),
                    toml_to_string("host", VStr("db.example"))>>
    /\ res.r.ok
    /\ res.r.v.fields["host"] = VStr("db.example")

\* the 17 names that make a field contribute depth 0
DepthZeroNames ==
    {"String", "str",
     "i8", "i16", "i32", "i64", "i128", "isize",
     "u8", "u16", "u32", "u64", "u128", "usize",
     "f32", "f64", "bool"}

\* C30: the depth expression of a field is 0 exactly when its type is a type
\* path whose last segment is one of the 17 primitive names; for every other
\* type it is 1 plus the child depth of that type, which has a value only
\* when the type is a derived struct.
C30_DepthContribution ==
    \A name \in DOMAIN registry :
        LET ast  == registry[name].ast
            item == registry[name].item
        IN /\ \A n \in DOMAIN ast.fields :
                 LET ty == ast.fields[n].ty IN
                 /\ depth_expr(ast.fields[n]) = [d |-> "zero"]
                       <=> (ty.path /\ ty.last \in DepthZeroNames)
                 /\ depth_expr(ast.fields[n]) # [d |-> "zero"]
                       => depth_expr(ast.fields[n]) = [d |-> "child", of |-> ty]
           /\ \A tn \in DepthZeroNames :
                 depth_expr(Field("x", TypePath(tn), NoDefault, <<>>)) = [d |-> "zero"]
           /\ item.outcome = "expanded" =>
                 \A n \in DOMAIN ast.fields :
                     LET ty    == ast.fields[n].ty
                         value == depth_expr_value(item.depth_exprs[n], registry)
                     IN IF ty.last \in DepthZeroNames THEN value = <<0>>
                        ELSE IF ty.last \in WithDepth
                        THEN value = <<1 + registry[ty.last].depth[1]>>
                        ELSE value = <<>>

\* C30 witness: Top { v: Vec, leaf: Leaf } was derived: both fields are
\* taken for nested structs, Leaf contributes 1, Vec has no child depth and
\* the build stops.
C30_Witness ==
    /\ last = "derive"
    /\ registry["Top"].item.outcome = "expanded"
    /\ Len(registry["Top"].ast.fields) = 2
    /\ registry["Top"].ast.fields[1].ident = "v"
    /\ registry["Top"].ast.fields[2].ident = "leaf"
    /\ registry["Top"].item.depth_exprs =
          <<[d |-> "child", of |-> TypePath("Vec")],
            [d |-> "child", of |-> TypePath("Leaf")]>>
    /\ registry["Top"].depth = <<>>
    /\ build = "cannot find type"

====
